---- MODULE Spec2Model ----
(***************************************************************************)
(* RideShare: the booking seat-reservation protocol (createBooking,       *)
(* handleBookingRequest, updateBookingStatus) against the rides/bookings  *)
(* tables, the live location tracker (startLocationTracking), the         *)
(* geocoder (geocodeLocation) and the search form (SearchRides).          *)
(*                                                                         *)
(* Every await on the remote data store is one atomic step of the store;  *)
(* the synchronous code that follows the await up to the next await (or   *)
(* the return) belongs to the same step.  A remote call may fail: the     *)
(* store then leaves the tables alone and the client sees a non-null      *)
(* error.  An update whose filter matches no row is NOT a failure: the    *)
(* client sees error = null and zero affected rows.                       *)
(***************************************************************************)
EXTENDS Integers, Sequences, FiniteSets, TLC

(***************************************************************************)
(* Bounds of the model.                                                    *)
(***************************************************************************)
MaxSeats == 2          \* initial available_seats of a ride ranges over 0..MaxSeats
MaxSeatsBooked == 3    \* seats_booked of a request ranges over 1..MaxSeatsBooked
MaxCalls == 2          \* createBooking calls (possibly concurrent)
MaxHandlers == 1       \* handleBookingRequest calls in progress at one time
MaxHandlerCalls == 2   \* handleBookingRequest calls made in one run
MaxWatchUpdates == 2   \* watchPosition success callbacks that are counted
MaxWatchErrors == 1    \* watchPosition error callbacks that are counted
MaxResults == 2        \* matches in one geocoding response
MaxRuns == 2           \* updateLocations runs in flight at one time

RideIds == {1, 2}
RideStatuses == {"active", "completed"}
BookingStatuses == {"pending", "confirmed", "cancelled"}
Calls == 1..MaxCalls
Handlers == 1..MaxHandlers
BookingIds == Calls    \* the row inserted by call c gets id c
Null == "null"
NoRow == [ride_id |-> 0, seats_booked |-> 0, status |-> "none"]

VARIABLES
    rides,       \* table rides: id -> [available_seats, status]
    bookings,    \* table bookings: id -> row, or NoRow when no such row exists
    cb,          \* createBooking calls: call -> locals, position and result
    hb,          \* handleBookingRequest calls: slot -> locals, position and result
    hbCalls,     \* number of handleBookingRequest calls made so far
    lt,          \* the location tracker (one startLocationTracking call)
    gc,          \* one geocodeLocation call: locals, requests sent, result
    sr           \* the SearchRides component: state, debounce timer, runs in flight

vars == <<rides, bookings, cb, hb, hbCalls, lt, gc, sr>>

(***************************************************************************)
(* createBooking                                                           *)
(***************************************************************************)
ErrVerify == "Failed to verify ride availability"
ErrNotActive == "This ride is no longer available for booking"
ErrSeats == "Only N seats available"
ErrCreate == "Failed to create booking"
ErrUpdate == "Failed to update seat availability. Please try again."

CbIdle ==
    [pc |-> "idle", ride_id |-> 0, seats_booked |-> 0,
     ride |-> [available_seats |-> 0, status |-> "none"],
     booking |-> 0, rows |-> -1, deleted |-> FALSE, overlap |-> FALSE,
     result |-> [booking |-> 0, error |-> Null]]

CbFail_KeepsBooking(call, msg) ==
    [call EXCEPT !.pc = "done", !.result = [booking |-> call.booking, error |-> msg]]

\* catch (error) { return { booking: null, error } }
CbFail(call, msg) ==
    [call EXCEPT !.pc = "done", !.result = [booking |-> 0, error |-> msg]]

RideNotActive_OnlyCancelled(ride) == ride.status = "cancelled"

\* if (ride.status !== 'active')
RideNotActive(ride) == ride.status # "active"

SeatsInsufficient_Reversed(ride, seats_booked) == ride.available_seats > seats_booked

SeatsInsufficient_OffByOne(ride, seats_booked) == ride.available_seats + 1 < seats_booked

\* if (ride.available_seats < params.seats_booked)
SeatsInsufficient(ride, seats_booked) == ride.available_seats < seats_booked

SeatsAfterBooking_OneSeat(ride, seats_booked) == ride.available_seats - 1

\* available_seats: ride.available_seats - params.seats_booked
SeatsAfterBooking(ride, seats_booked) == ride.available_seats - seats_booked

SeatFilterMatches_IdOnly(id, row, ride_id, read_seats) == id = ride_id

\* .eq('id', params.ride_id).eq('available_seats', ride.available_seats)
SeatFilterMatches(id, row, ride_id, read_seats) ==
    id = ride_id /\ row.available_seats = read_seats

\* a createBooking call that has been made and has not returned
InProgress(call) == call.pc \notin {"idle", "done"}

\* calls are numbered in the order in which they are made
CanStart(c) == cb[c].pc = "idle" /\ \A d \in Calls : d < c => cb[d].pc # "idle"

\* the call is made and its first await, the read of the ride, is answered;
\* the status and seat checks run on the value read
CreateBooking_ReadRide(c, ride_id, seats_booked, fail) ==
    /\ CanStart(c)
    /\ LET call == [cb[c] EXCEPT !.ride_id = ride_id, !.seats_booked = seats_booked,
                                 !.overlap = \E d \in Calls : InProgress(cb[d])]
           ride == rides[ride_id]
           read == [call EXCEPT !.ride = ride]
       IN cb' = [d \in Calls |->
                    IF d # c
                    THEN [cb[d] EXCEPT !.overlap = @ \/ InProgress(cb[d])]
                    ELSE IF fail THEN CbFail(call, ErrVerify)
                    ELSE IF RideNotActive(ride) THEN CbFail(read, ErrNotActive)
                    ELSE IF SeatsInsufficient(ride, seats_booked) THEN CbFail(read, ErrSeats)
                    ELSE [read EXCEPT !.pc = "insert"]]
    /\ UNCHANGED <<rides, bookings, hb, hbCalls, lt, gc, sr>>

\* insert([newBooking]).select().single(): the row is created with status pending
CreateBooking_Insert(c, fail) ==
    /\ cb[c].pc = "insert"
    /\ IF fail
       THEN /\ cb' = [cb EXCEPT ![c] = CbFail(@, ErrCreate)]
            /\ UNCHANGED bookings
       ELSE /\ bookings' = [bookings EXCEPT ![c] =
                              [ride_id |-> cb[c].ride_id,
                               seats_booked |-> cb[c].seats_booked,
                               status |-> "pending"]]
            /\ cb' = [cb EXCEPT ![c].pc = "update", ![c].booking = c]
    /\ UNCHANGED <<rides, hb, hbCalls, lt, gc, sr>>

\* the conditional update of the ride's seat count; updateError is non-null only
\* when the remote call fails, not when the filter matches no row
CreateBooking_UpdateSeats(c, fail) ==
    /\ cb[c].pc = "update"
    /\ IF fail
       THEN /\ cb' = [cb EXCEPT ![c].pc = "delete"]
            /\ UNCHANGED rides
       ELSE LET matched == {r \in RideIds :
                              SeatFilterMatches(r, rides[r], cb[c].ride_id,
                                                cb[c].ride.available_seats)}
            IN /\ rides' = [r \in RideIds |->
                              IF r \in matched
                              THEN [rides[r] EXCEPT !.available_seats =
                                      SeatsAfterBooking(cb[c].ride, cb[c].seats_booked)]
                              ELSE rides[r]]
               /\ cb' = [cb EXCEPT ![c].pc = "done",
                                   ![c].rows = Cardinality(matched),
                                   ![c].result = [booking |-> cb[c].booking, error |-> Null]]
    /\ UNCHANGED <<bookings, hb, hbCalls, lt, gc, sr>>

\* if (updateError) { delete the booking; throw }: the delete's own error is ignored
CreateBooking_Delete(c, fail) ==
    /\ cb[c].pc = "delete"
    /\ bookings' = IF fail THEN bookings ELSE [bookings EXCEPT ![cb[c].booking] = NoRow]
    /\ cb' = [cb EXCEPT ![c] = CbFail([@ EXCEPT !.deleted = ~fail], ErrUpdate)]
    /\ UNCHANGED <<rides, hb, hbCalls, lt, gc, sr>>

(***************************************************************************)
(* handleBookingRequest and updateBookingStatus                            *)
(***************************************************************************)
HbIdle ==
    [pc |-> "idle", bookingId |-> 0, status |-> "none", before |-> "none",
     booking |-> NoRow, rpcCalls |-> 0, success |-> Null]

BookingStatusOf_AlwaysConfirmed(status) == "confirmed"

\* const bookingStatus = status === 'approved' ? 'confirmed' : 'cancelled'
BookingStatusOf(status) == IF status = "approved" THEN "confirmed" ELSE "cancelled"

\* the remote procedure update_ride_seats(p_ride_id, p_seats_booked)
update_ride_seats(table, p_ride_id, p_seats_booked) ==
    [table EXCEPT ![p_ride_id].available_seats = @ - p_seats_booked]

\* a slot whose call has returned serves the next call
HbCanStart(h) == hb[h].pc \in {"idle", "done"} /\ hbCalls < MaxHandlerCalls

\* the call is made and its first await, the status update filtered on the id
\* alone, is answered; .single() reports an error when no row has that id
HandleBookingRequest_UpdateStatus(h, bookingId, status, fail) ==
    /\ HbCanStart(h)
    /\ hbCalls' = hbCalls + 1
    /\ LET call == [HbIdle EXCEPT !.bookingId = bookingId, !.status = status,
                                 !.before = bookings[bookingId].status]
           found == bookings[bookingId] # NoRow
           row == [bookings[bookingId] EXCEPT !.status = BookingStatusOf(status)]
       IN IF fail \/ ~found
          THEN /\ hb' = [hb EXCEPT ![h] = [call EXCEPT !.pc = "done", !.success = "false"]]
               /\ UNCHANGED bookings
          ELSE /\ bookings' = [bookings EXCEPT ![bookingId] = row]
               /\ hb' = [hb EXCEPT ![h] =
                           IF status = "approved" /\ row.ride_id \in RideIds
                           THEN [call EXCEPT !.pc = "rpc", !.booking = row]
                           ELSE [call EXCEPT !.pc = "done", !.booking = row,
                                             !.success = "true"]]
    /\ UNCHANGED <<rides, cb, lt, gc, sr>>

\* await supabase.rpc('update_ride_seats', ...); if (seatsError) throw seatsError
HandleBookingRequest_Rpc(h, fail) ==
    /\ hb[h].pc = "rpc"
    /\ rides' = IF fail THEN rides
                ELSE update_ride_seats(rides, hb[h].booking.ride_id,
                                       hb[h].booking.seats_booked)
    /\ hb' = [hb EXCEPT ![h].pc = "done", ![h].rpcCalls = @ + 1,
                        ![h].success = IF fail THEN "false" ELSE "true"]
    /\ UNCHANGED <<bookings, cb, hbCalls, lt, gc, sr>>

\* updateBookingStatus: one update filtered on the id alone.  The value returned,
\* { booking: data, error }, is the row written and is kept by no one; a call
\* that fails, or that names no existing row, changes nothing.
UpdateBookingStatus(bookingId, status) ==
    /\ bookings[bookingId] # NoRow
    /\ bookings' = [bookings EXCEPT ![bookingId].status = status]
    /\ UNCHANGED <<rides, cb, hb, hbCalls, lt, gc, sr>>

(***************************************************************************)
(* startLocationTracking                                                   *)
(***************************************************************************)
maxRetries == 3
BaseDelay == 5000
DefaultTimeout == 30000

LtIdle ==
    [pc |-> "notStarted", supported |-> TRUE, retryCount |-> 0, gcpCalls |-> 0,
     timeout |-> 0, delays |-> <<>>, attemptWarnings |-> 0, gaveUp |-> FALSE,
     watching |-> FALSE, stopped |-> FALSE, watchUpdates |-> 0, watchErrors |-> 0,
     oneShotUpdates |-> 0, watchAfterStop |-> 0, oneShotAfterStop |-> 0]

ShouldRetry_OneMore(retryCount) == retryCount <= maxRetries

\* if (retryCount < maxRetries)
ShouldRetry(retryCount) == retryCount < maxRetries

RetryDelay_NoDecrement(retryCount) == BaseDelay * 2^retryCount

\* 5000 * Math.pow(2, retryCount - 1), evaluated after retryCount++
RetryDelay(retryCount) == BaseDelay * 2^(retryCount - 1)

ClearWatch_AlsoCancelsRetry(t) ==
    [t EXCEPT !.watching = FALSE,
              !.pc = IF @ \in {"attempting", "waiting"} THEN "cancelled" ELSE @]

\* what clearWatch(watchId) leaves of the tracker: the watch is gone, the rest stays
ClearWatch(t) == [t EXCEPT !.watching = FALSE]

\* startLocationTracking(onLocationUpdate, options): without navigator.geolocation
\* it warns and returns an empty function; otherwise it issues the first
\* getCurrentPosition and registers the watch
StartLocationTracking ==
    /\ lt.pc = "notStarted"
    /\ lt' = IF ~lt.supported
             THEN [lt EXCEPT !.pc = "unsupported"]
             ELSE [lt EXCEPT !.pc = "attempting", !.retryCount = 0, !.gcpCalls = 1,
                             !.timeout = DefaultTimeout, !.watching = TRUE]
    /\ UNCHANGED <<rides, bookings, cb, hb, hbCalls, gc, sr>>

\* getCurrentPosition's success callback: resolve(position), then the .then
\* callback hands the location to onLocationUpdate
GetCurrentPosition_Success ==
    /\ lt.pc = "attempting"
    /\ lt' = [lt EXCEPT !.pc = "resolved", !.oneShotUpdates = @ + 1,
                        !.oneShotAfterStop = IF lt.stopped THEN @ + 1 ELSE @]
    /\ UNCHANGED <<rides, bookings, cb, hb, hbCalls, gc, sr>>

\* getCurrentPosition's error callback: warn, then either count the retry and
\* set the backoff timer, or reject (the .catch callback logs the final warning)
GetCurrentPosition_Error ==
    /\ lt.pc = "attempting"
    /\ lt' = IF ShouldRetry(lt.retryCount)
             THEN [lt EXCEPT !.pc = "waiting", !.retryCount = @ + 1,
                             !.attemptWarnings = @ + 1,
                             !.delays = Append(@, RetryDelay(lt.retryCount + 1))]
             ELSE [lt EXCEPT !.pc = "rejected", !.attemptWarnings = @ + 1,
                             !.gaveUp = TRUE]
    /\ UNCHANGED <<rides, bookings, cb, hb, hbCalls, gc, sr>>

\* the setTimeout callback: getPosition({ ...retryOptions, timeout: timeout * 2 })
RetryTimer_Fires ==
    /\ lt.pc = "waiting"
    /\ lt' = [lt EXCEPT !.pc = "attempting", !.gcpCalls = @ + 1, !.timeout = @ * 2]
    /\ UNCHANGED <<rides, bookings, cb, hb, hbCalls, gc, sr>>

\* watchPosition's success callback hands the location to onLocationUpdate
WatchPosition_Success ==
    /\ lt.watching
    /\ lt.watchUpdates < MaxWatchUpdates
    /\ lt' = [lt EXCEPT !.watchUpdates = @ + 1,
                        !.watchAfterStop = IF lt.stopped THEN @ + 1 ELSE @]
    /\ UNCHANGED <<rides, bookings, cb, hb, hbCalls, gc, sr>>

\* watchPosition's error callback only logs
WatchPosition_Error ==
    /\ lt.watching
    /\ lt.watchErrors < MaxWatchErrors
    /\ lt' = [lt EXCEPT !.watchErrors = @ + 1]
    /\ UNCHANGED <<rides, bookings, cb, hb, hbCalls, gc, sr>>

\* the function startLocationTracking returned: clearWatch(watchId), or nothing
\* at all when geolocation is unsupported
StopTracking ==
    /\ lt.pc \notin {"notStarted"}
    /\ ~lt.stopped
    /\ lt' = [(IF lt.supported THEN ClearWatch(lt) ELSE lt) EXCEPT !.stopped = TRUE]
    /\ UNCHANGED <<rides, bookings, cb, hb, hbCalls, gc, sr>>

(***************************************************************************)
(* geocodeLocation                                                         *)
(***************************************************************************)
LocationNames == {"Ahmedabad", "Surat", "Nowhere"}

\* the matches the geocoding service can answer with: lat and lon are strings,
\* display_name is given by its comma-separated parts
Places ==
    {[lat |-> "23.0225", lon |-> "72.5714", display_name |-> <<"Ahmedabad", "Gujarat", "India">>],
     [lat |-> "21.1702", lon |-> "72.8311", display_name |-> <<"Surat", "Gujarat", "India">>],
     [lat |-> "21.1702", lon |-> "-72.8311", display_name |-> <<"Surat County">>]}

\* the body of a response: JSON null, or an array of at most MaxResults matches
JsonBodies ==
    {[null |-> TRUE, items |-> <<>>]}
        \cup {[null |-> FALSE, items |-> a] :
                 a \in UNION {[1..n -> Places] : n \in 0..MaxResults}}

\* what a fetch can come to: it rejects, the response is not ok, its body is
\* not JSON, or it is ok with a JSON body
Responses ==
    {[kind |-> k, data |-> [null |-> TRUE, items |-> <<>>]] : k \in {"throw", "notOk", "badJson"}}
        \cup {[kind |-> "ok", data |-> d] : d \in JsonBodies}

NoCoords == [lat |-> 0, lng |-> 0, name |-> Null]

GcIdle ==
    [pc |-> "idle", locationName |-> "", requests |-> <<>>, responses |-> <<>>,
     result |-> NoCoords]

\* `${nominatimUrl}?format=json&q=${encodeURIComponent(locationName)}, Gujarat, India`
ScopedQuery(locationName) == <<locationName, "Gujarat", "India">>

\* `${nominatimUrl}?format=json&q=${encodeURIComponent(locationName)}`
UnscopedQuery(locationName) == <<locationName>>

\* parseFloat on the coordinate strings, in units of 1/10000 degree
ParseFloat(str) ==
    CASE str = "23.0225" -> 230225
      [] str = "72.5714" -> 725714
      [] str = "21.1702" -> 211702
      [] str = "72.8311" -> 728311
      [] str = "-72.8311" -> -728311

NoResults_Always(data) == TRUE

NoResults_Never(data) == FALSE

\* if (!data || data.length === 0)
NoResults(data) == data.null \/ Len(data.items) = 0

\* if (data && data[0]) return { lat, lng, name: display_name.split(',')[0] }; else null
FirstResult(data) ==
    IF ~data.null /\ Len(data.items) >= 1
    THEN [lat |-> ParseFloat(data.items[1].lat), lng |-> ParseFloat(data.items[1].lon),
          name |-> Head(data.items[1].display_name)]
    ELSE NoCoords

\* the call is made and its first fetch, scoped to Gujarat, India, is answered
GeocodeLocation_ScopedQuery(locationName, resp) ==
    /\ gc.pc = "idle"
    /\ LET call == [gc EXCEPT !.locationName = locationName,
                              !.requests = <<ScopedQuery(locationName)>>,
                              !.responses = <<resp>>]
       IN gc' = IF resp.kind # "ok" THEN [call EXCEPT !.pc = "done", !.result = NoCoords]
                ELSE IF NoResults(resp.data) THEN [call EXCEPT !.pc = "unscoped"]
                ELSE [call EXCEPT !.pc = "done", !.result = FirstResult(resp.data)]
    /\ UNCHANGED <<rides, bookings, cb, hb, hbCalls, lt, sr>>

\* the second fetch, without the region, is answered
GeocodeLocation_UnscopedQuery(resp) ==
    /\ gc.pc = "unscoped"
    /\ gc' = [gc EXCEPT !.pc = "done",
                        !.requests = Append(@, UnscopedQuery(gc.locationName)),
                        !.responses = Append(@, resp),
                        !.result = IF resp.kind # "ok" THEN NoCoords
                                   ELSE FirstResult(resp.data)]
    /\ UNCHANGED <<rides, bookings, cb, hb, hbCalls, lt, sr>>

(***************************************************************************)
(* SearchRides                                                             *)
(***************************************************************************)
SearchTexts == {"", "Ahmedabad", "Surat"}
Runs == 1..MaxRuns

\* the value geocodeLocation returns for a text: null, or the match for that text
NoLoc == [query |-> Null]
GeocodeOutcome(text, found) == IF found THEN [query |-> text] ELSE NoLoc

RunIdle == [pc |-> "idle", from |-> "", to |-> ""]
NoSearch == [made |-> FALSE, from |-> "", to |-> "", fromLocation |-> NoLoc, toLocation |-> NoLoc]

\* after the first render: empty texts, no locations, and the effect has set
\* its first 500 ms timer
SrMounted ==
    [from |-> "", to |-> "", timer |-> TRUE, runs |-> [r \in Runs |-> RunIdle],
     fromLocation |-> NoLoc, toLocation |-> NoLoc, isLoading |-> FALSE,
     submitted |-> NoSearch]

\* if (!fromLocation || !toLocation) return
CanSubmit(fromLocation, toLocation) == fromLocation # NoLoc /\ toLocation # NoLoc

\* the user edits the from text: the effect's cleanup clears the pending timer
\* and the effect sets a new one
EditFrom(text) ==
    /\ text # sr.from
    /\ sr' = [sr EXCEPT !.from = text, !.timer = TRUE]
    /\ UNCHANGED <<rides, bookings, cb, hb, hbCalls, lt, gc>>

\* the user edits the to text
EditTo(text) ==
    /\ text # sr.to
    /\ sr' = [sr EXCEPT !.to = text, !.timer = TRUE]
    /\ UNCHANGED <<rides, bookings, cb, hb, hbCalls, lt, gc>>

\* the debounce timer fires: updateLocations runs up to its first await
DebounceTimer_Fires(r) ==
    /\ sr.timer
    /\ sr.runs[r].pc = "idle"
    /\ \A q \in Runs : q < r => sr.runs[q].pc # "idle"
    /\ sr' = IF sr.from = "" \/ sr.to = ""
             THEN [sr EXCEPT !.timer = FALSE]
             ELSE [sr EXCEPT !.timer = FALSE, !.isLoading = TRUE,
                             !.runs[r] = [pc |-> "from", from |-> sr.from, to |-> sr.to]]
    /\ UNCHANGED <<rides, bookings, cb, hb, hbCalls, lt, gc>>

\* geocodeLocation(searchParams.from) returns: setFromLocation if it found a match
UpdateLocations_FromDone(r, found) ==
    /\ sr.runs[r].pc = "from"
    /\ sr' = [sr EXCEPT !.runs[r].pc = "to",
                        !.fromLocation =
                            IF found THEN GeocodeOutcome(sr.runs[r].from, found) ELSE @]
    /\ UNCHANGED <<rides, bookings, cb, hb, hbCalls, lt, gc>>

\* geocodeLocation(searchParams.to) returns: setToLocation if it found a match,
\* then finally setIsLoading(false)
UpdateLocations_ToDone(r, found) ==
    /\ sr.runs[r].pc = "to"
    /\ sr' = [sr EXCEPT !.runs[r] = RunIdle, !.isLoading = FALSE,
                        !.toLocation =
                            IF found THEN GeocodeOutcome(sr.runs[r].to, found) ELSE @]
    /\ UNCHANGED <<rides, bookings, cb, hb, hbCalls, lt, gc>>

\* handleSubmit: onSearch({ ...searchParams, fromLocation, toLocation }) unless a
\* location is missing
HandleSubmit ==
    /\ sr' = IF CanSubmit(sr.fromLocation, sr.toLocation)
             THEN [sr EXCEPT !.submitted =
                      [made |-> TRUE, from |-> sr.from, to |-> sr.to,
                       fromLocation |-> sr.fromLocation, toLocation |-> sr.toLocation]]
             ELSE sr
    /\ sr' # sr
    /\ UNCHANGED <<rides, bookings, cb, hb, hbCalls, lt, gc>>

(***************************************************************************)
(* Specifications                                                          *)
(***************************************************************************)
\* createBooking calls on rides in any initial condition; no call made yet
BookingInit ==
    /\ rides \in [RideIds -> [available_seats : 0..MaxSeats, status : RideStatuses]]
    /\ bookings = [b \in BookingIds |-> NoRow]
    /\ cb = [c \in Calls |-> CbIdle]
    /\ hb = [h \in Handlers |-> HbIdle]
    /\ hbCalls = 0
    /\ lt = LtIdle
    /\ gc = GcIdle
    /\ sr = SrMounted

\* the booking service on active rides with MaxSeats free seats; no call made yet
StatusInit ==
    /\ rides = [r \in RideIds |-> [available_seats |-> MaxSeats, status |-> "active"]]
    /\ bookings = [b \in BookingIds |-> NoRow]
    /\ cb = [c \in Calls |-> CbIdle]
    /\ hb = [h \in Handlers |-> HbIdle]
    /\ hbCalls = 0
    /\ lt = LtIdle
    /\ gc = GcIdle
    /\ sr = SrMounted

\* the page before startLocationTracking is called, in a browser with or
\* without navigator.geolocation
LocationInit ==
    /\ rides = [r \in RideIds |-> [available_seats |-> MaxSeats, status |-> "active"]]
    /\ bookings = [b \in BookingIds |-> NoRow]
    /\ cb = [c \in Calls |-> CbIdle]
    /\ hb = [h \in Handlers |-> HbIdle]
    /\ hbCalls = 0
    /\ lt \in {[LtIdle EXCEPT !.supported = s] : s \in BOOLEAN}
    /\ gc = GcIdle
    /\ sr = SrMounted

\* before a geocodeLocation call
GeocodeInit ==
    /\ rides = [r \in RideIds |-> [available_seats |-> MaxSeats, status |-> "active"]]
    /\ bookings = [b \in BookingIds |-> NoRow]
    /\ cb = [c \in Calls |-> CbIdle]
    /\ hb = [h \in Handlers |-> HbIdle]
    /\ hbCalls = 0
    /\ lt = LtIdle
    /\ gc = GcIdle
    /\ sr = SrMounted

\* the search form after its first render
SearchInit ==
    /\ rides = [r \in RideIds |-> [available_seats |-> MaxSeats, status |-> "active"]]
    /\ bookings = [b \in BookingIds |-> NoRow]
    /\ cb = [c \in Calls |-> CbIdle]
    /\ hb = [h \in Handlers |-> HbIdle]
    /\ hbCalls = 0
    /\ lt = LtIdle
    /\ gc = GcIdle
    /\ sr = SrMounted

NextCreate ==
    \/ \E c \in Calls, r \in RideIds, n \in 1..MaxSeatsBooked, fail \in BOOLEAN :
          CreateBooking_ReadRide(c, r, n, fail)
    \/ \E c \in Calls, fail \in BOOLEAN : CreateBooking_Insert(c, fail)
    \/ \E c \in Calls, fail \in BOOLEAN : CreateBooking_UpdateSeats(c, fail)
    \/ \E c \in Calls, fail \in BOOLEAN : CreateBooking_Delete(c, fail)

NextStatus ==
    \/ \E h \in Handlers, b \in BookingIds, s \in {"approved", "rejected"}, fail \in BOOLEAN :
          HandleBookingRequest_UpdateStatus(h, b, s, fail)
    \/ \E h \in Handlers, fail \in BOOLEAN : HandleBookingRequest_Rpc(h, fail)
    \/ \E b \in BookingIds, s \in BookingStatuses : UpdateBookingStatus(b, s)

NextBooking == NextCreate \/ NextStatus

NextLocation ==
    \/ StartLocationTracking
    \/ GetCurrentPosition_Success
    \/ GetCurrentPosition_Error
    \/ RetryTimer_Fires
    \/ WatchPosition_Success
    \/ WatchPosition_Error
    \/ StopTracking

\* concurrent createBooking calls only
SpecCreate == BookingInit /\ [][NextCreate]_vars

\* the whole booking service
SpecBooking == StatusInit /\ [][NextBooking]_vars

\* one startLocationTracking call and the callbacks it registers
SpecLocation == LocationInit /\ [][NextLocation]_vars

NextGeocode ==
    \/ \E n \in LocationNames, resp \in Responses : GeocodeLocation_ScopedQuery(n, resp)
    \/ \E resp \in Responses : GeocodeLocation_UnscopedQuery(resp)

NextSearch ==
    \/ \E t \in SearchTexts : EditFrom(t)
    \/ \E t \in SearchTexts : EditTo(t)
    \/ \E r \in Runs : DebounceTimer_Fires(r)
    \/ \E r \in Runs, found \in BOOLEAN : UpdateLocations_FromDone(r, found)
    \/ \E r \in Runs, found \in BOOLEAN : UpdateLocations_ToDone(r, found)
    \/ HandleSubmit

\* one geocodeLocation call against a service that may answer anything
SpecGeocode == GeocodeInit /\ [][NextGeocode]_vars

\* the search form: edits, the debounce timer, geocoding runs and submits
SpecSearch == SearchInit /\ [][NextSearch]_vars

(***************************************************************************)
(* Properties                                                              *)
(***************************************************************************)
Returned(c) == cb[c].pc = "done"
ReadOk(c) == cb[c].ride.status # "none"
Failed(c) == cb[c].result.booking = 0 /\ cb[c].result.error # Null
Succeeded(c) == cb[c].result.booking # 0 /\ cb[c].result.error = Null
NeverWrote(c) == cb[c].booking = 0 /\ bookings[c] = NoRow /\ cb[c].rows = -1
RemoteErrors == {ErrVerify, ErrCreate, ErrUpdate}
ExistingBookings == {b \in BookingIds : bookings[b] # NoRow}

\* C1: when the conditional seat-count update of a createBooking call affects
\* zero rows, the booking the call inserted no longer exists once the call has
\* returned, and the call reports failure (booking null, error non-null).
C1_RollbackOnZeroRows ==
    \A c \in Calls :
        (Returned(c) /\ cb[c].rows = 0) => (bookings[cb[c].booking] = NoRow /\ Failed(c))

\* C2: under concurrent createBooking calls, a ride's available_seats changes
\* only in the seat update of a call whose read seat count equals the ride's
\* current seat count, and of the calls on one ride that read the same seat
\* count at most one has its decrement applied.
C2_NoStaleDecrement ==
    [][/\ \A r \in RideIds :
             rides'[r] # rides[r] =>
                \E c \in Calls :
                    /\ cb[c].pc = "update" /\ cb'[c].pc = "done" /\ cb'[c].rows = 1
                    /\ cb[c].ride_id = r
                    /\ cb[c].ride.available_seats = rides[r].available_seats
       /\ \A c, d \in Calls :
             (/\ c # d
              /\ cb'[c].rows = 1 /\ cb'[d].rows = 1
              /\ cb'[c].ride_id = cb'[d].ride_id)
                => cb'[c].ride.available_seats # cb'[d].ride.available_seats]_vars

C2_Witness ==
    \E c, d \in Calls :
        /\ c # d /\ Returned(c) /\ Returned(d)
        /\ cb[c].ride_id = cb[d].ride_id
        /\ cb[c].ride.available_seats = cb[d].ride.available_seats
        /\ cb[c].rows = 1 /\ cb[d].rows = 0

\* C3: a createBooking call whose seats_booked exceeds the available_seats it
\* read has returned failure (booking null, error non-null), has inserted no
\* booking row and has issued no seat update.
C3_InsufficientSeatsFails ==
    \A c \in Calls :
        (ReadOk(c) /\ cb[c].seats_booked > cb[c].ride.available_seats)
            => (Returned(c) /\ Failed(c) /\ NeverWrote(c))

C3_Witness ==
    \E c \in Calls :
        /\ Returned(c) /\ cb[c].ride.status = "active"
        /\ cb[c].ride.available_seats = 2 /\ cb[c].seats_booked = 3
        /\ cb[c].result.error = ErrSeats
        /\ rides[cb[c].ride_id].available_seats = 2

\* C4: a createBooking call that read a ride status other than 'active' has
\* returned failure (booking null, error non-null), has inserted no booking row
\* and has issued no seat update, however many seats the ride has.
C4_InactiveRideFails ==
    \A c \in Calls :
        (ReadOk(c) /\ cb[c].ride.status # "active")
            => (Returned(c) /\ Failed(c) /\ NeverWrote(c))

C4_Witness ==
    \E c \in Calls :
        /\ Returned(c) /\ cb[c].ride.status = "completed"
        /\ cb[c].seats_booked <= cb[c].ride.available_seats
        /\ cb[c].result.error = ErrNotActive

\* C5: a createBooking call on an active ride with seats_booked <= available_seats
\* that overlapped no other call and met no remote-call failure has succeeded:
\* it returned its booking with error null, its booking row exists with status
\* 'pending', it is the one row the call added, and the ride's available_seats
\* is the value read minus seats_booked.
C5_IsolatedBookingSucceeds ==
    \A c \in Calls :
        (/\ Returned(c) /\ ~cb[c].overlap
         /\ \A d \in Calls : d > c => cb[d].pc = "idle"
         /\ ReadOk(c) /\ cb[c].ride.status = "active"
         /\ cb[c].seats_booked <= cb[c].ride.available_seats
         /\ cb[c].result.error \notin RemoteErrors)
            => /\ Succeeded(c) /\ cb[c].result.booking = cb[c].booking
               /\ bookings[cb[c].booking] =
                     [ride_id |-> cb[c].ride_id, seats_booked |-> cb[c].seats_booked,
                      status |-> "pending"]
               /\ ExistingBookings \ {cb[c].booking} =
                     {d \in Calls : d < c /\ cb[d].booking # 0 /\ ~cb[d].deleted}
               /\ rides[cb[c].ride_id].available_seats =
                     cb[c].ride.available_seats - cb[c].seats_booked

C5_Witness ==
    \E c \in Calls :
        /\ Returned(c) /\ ~cb[c].overlap /\ Succeeded(c)
        /\ cb[c].ride.available_seats = 2 /\ cb[c].seats_booked = 2
        /\ rides[cb[c].ride_id].available_seats = 0
        /\ bookings[c].status = "pending"

\* C6: a handleBookingRequest call on a pending booking whose status update
\* goes through: with 'approved' the booking's status becomes 'confirmed' and
\* update_ride_seats is invoked exactly once, in the call's next step; with
\* 'rejected' the status becomes 'cancelled', the call returns without invoking
\* update_ride_seats and the ride's seat count is unchanged.
C6_ApproveRejectPending ==
    [][\A h \in Handlers :
          /\ (/\ hbCalls' = hbCalls + 1 /\ hb'[h] # hb[h]
              /\ hb'[h].before = "pending" /\ hb'[h].booking # NoRow)
                => /\ rides' = rides
                   /\ hb'[h].rpcCalls = 0
                   /\ hb'[h].status = "approved" =>
                         /\ bookings'[hb'[h].bookingId].status = "confirmed"
                         /\ hb'[h].pc = "rpc"
                   /\ hb'[h].status = "rejected" =>
                         /\ bookings'[hb'[h].bookingId].status = "cancelled"
                         /\ hb'[h].pc = "done" /\ hb'[h].success = "true"
          /\ (hb[h].pc = "rpc" /\ hb'[h] # hb[h])
                => hb'[h].pc = "done" /\ hb'[h].rpcCalls = 1
          /\ (hb'[h].pc = "done" /\ hb'[h].booking # NoRow)
                => hb'[h].rpcCalls = (IF hb'[h].status = "approved" THEN 1 ELSE 0)]_vars

C6_Witness ==
    \E h \in Handlers :
        /\ hb[h].pc = "done" /\ hb[h].before = "pending" /\ hb[h].status = "approved"
        /\ hb[h].rpcCalls = 1 /\ hb[h].success = "true"
        /\ bookings[hb[h].bookingId].status = "confirmed"

\* C7: a booking's status is one-directional: a 'cancelled' booking never
\* becomes 'confirmed', and a booking that has left 'pending' never returns to it.
C7_OneDirectional ==
    [][\A b \in BookingIds :
          /\ bookings[b].status = "cancelled" => bookings'[b].status # "confirmed"
          /\ bookings[b].status \in {"confirmed", "cancelled"}
                => bookings'[b].status # "pending"]_vars

\* C8: the one-shot acquisition retries at most 3 times, the timers set before
\* the retries are 5000, 10000 and 20000 ms in that order, one retry follows
\* each timer, and when the third retry fails the chain has given up: the final
\* warning is logged and the one-shot path has not called onLocationUpdate.
BackoffSchedule == <<5000, 10000, 20000>>

C8_RetryBackoff ==
    /\ Len(lt.delays) <= 3
    /\ lt.retryCount = Len(lt.delays)
    /\ \A i \in 1..Len(lt.delays) : lt.delays[i] = BackoffSchedule[i]
    /\ lt.pc \in {"attempting", "resolved", "rejected"} => lt.gcpCalls = 1 + Len(lt.delays)
    /\ lt.pc = "waiting" => lt.gcpCalls = Len(lt.delays)
    /\ lt.gaveUp <=> lt.pc = "rejected"
    /\ lt.pc = "rejected" =>
          /\ lt.delays = BackoffSchedule
          /\ lt.attemptWarnings = 4
          /\ lt.oneShotUpdates = 0

C8_Witness == lt.pc = "rejected" /\ lt.gaveUp /\ lt.delays = BackoffSchedule

\* C9 as stated: getCurrentPosition is invoked at most 3 times in total for one
\* startLocationTracking call.
C9_AtMostThreeAttempts == lt.gcpCalls <= 3

\* C9 amended: getCurrentPosition is invoked at most 4 times in total (the first
\* attempt and up to 3 retries), and after the 4th invocation no retry timer is
\* ever pending: the chain ends with that attempt's success or failure.
C9_AtMostFourAttempts ==
    /\ lt.gcpCalls <= 4
    /\ lt.gcpCalls = 4 => lt.pc \in {"attempting", "resolved", "rejected"}
    /\ lt.pc \in {"resolved", "rejected"} => ~ENABLED RetryTimer_Fires

C9_Witness == lt.gcpCalls = 4 /\ lt.pc = "resolved"

\* C10: the function startLocationTracking returned stops the watch only: once
\* it has been called no watchPosition update reaches onLocationUpdate, calling
\* it leaves the one-shot chain as it was (attempt in flight, retry count,
\* pending timer), and the one-shot path calls onLocationUpdate at most once,
\* possibly after the stop.
C10_StopOnlyStopsWatch ==
    [][/\ lt.stopped => lt'.watchUpdates = lt.watchUpdates /\ lt'.watchAfterStop = 0
       /\ (~lt.stopped /\ lt'.stopped) =>
             /\ lt'.pc = lt.pc /\ lt'.retryCount = lt.retryCount
             /\ lt'.gcpCalls = lt.gcpCalls /\ lt'.delays = lt.delays
             /\ lt'.timeout = lt.timeout /\ lt'.oneShotUpdates = lt.oneShotUpdates
       /\ lt'.oneShotUpdates <= 1]_vars

C10_Witness ==
    /\ lt.stopped /\ lt.oneShotAfterStop = 1 /\ lt.retryCount >= 1
    /\ lt.watchAfterStop = 0 /\ lt.watchUpdates >= 1

\* C13: createBooking never throws to its caller: a call that has returned
\* holds a result in which exactly one of booking and error is non-null, every
\* remote-call failure (ride read, booking insert, seat update) ends in such a
\* failure result, and the seat-update failure is reported only by the step
\* that issued the compensating delete of the inserted booking.
C13_FailuresBecomeResults ==
    [][\A c \in Calls :
          /\ cb'[c].pc = "done" =>
                /\ (cb'[c].result.booking # 0) # (cb'[c].result.error # Null)
                /\ cb'[c].result.error \in RemoteErrors => cb'[c].result.booking = 0
          /\ (cb'[c].result.error = ErrUpdate /\ cb[c].result.error # ErrUpdate)
                => /\ cb[c].pc = "delete" /\ cb[c].booking # 0
                   /\ cb'[c].deleted => bookings'[cb[c].booking] = NoRow
          /\ cb[c].pc = "delete" => cb'[c].pc \in {"delete", "done"}]_vars

C13_Witness ==
    \E c \in Calls :
        /\ Returned(c) /\ cb[c].result.error = ErrUpdate /\ cb[c].result.booking = 0
        /\ cb[c].booking # 0 /\ cb[c].deleted /\ bookings[cb[c].booking] = NoRow

\* no createBooking or handleBookingRequest call is in progress
Quiescent ==
    /\ \A c \in Calls : ~InProgress(cb[c])
    /\ \A h \in Handlers : hb[h].pc \in {"idle", "done"}

RECURSIVE SumSeats(_)
SumSeats(bs) ==
    IF bs = {} THEN 0
    ELSE LET b == CHOOSE x \in bs : TRUE
         IN bookings[b].seats_booked + SumSeats(bs \ {b})

HeldSeats(r) ==
    SumSeats({b \in BookingIds :
                 bookings[b].ride_id = r /\ bookings[b].status \in {"pending", "confirmed"}})

\* C14: seat conservation: once every call has completed, each ride's
\* available_seats equals its initial seat count minus the seats_booked of its
\* existing bookings whose status is 'pending' or 'confirmed'.
C14_SeatConservation ==
    Quiescent => \A r \in RideIds : rides[r].available_seats = MaxSeats - HeldSeats(r)

\* C15: under concurrent createBooking calls alone, no ride's available_seats
\* is ever negative.
C15_SeatsNeverNegative == \A r \in RideIds : rides[r].available_seats >= 0

C15_Witness ==
    \E c, d \in Calls :
        /\ c # d /\ Returned(c) /\ Returned(d) /\ cb[c].ride_id = cb[d].ride_id
        /\ cb[c].overlap /\ cb[d].overlap
        /\ cb[c].rows = 1 /\ cb[d].rows = 0
        /\ cb[c].seats_booked + cb[d].seats_booked > cb[c].ride.available_seats
        /\ rides[cb[c].ride_id].available_seats = 0

\* C16: handleBookingRequest is all-or-nothing on failure: when a call returns
\* success = false, the booking's status is what it was before the call.
C16_AllOrNothing ==
    [][\A h \in Handlers :
          (/\ hb'[h] # hb[h] /\ hb'[h].pc = "done" /\ hb'[h].success = "false"
           /\ hb'[h].bookingId \in BookingIds)
             => bookings'[hb'[h].bookingId].status = hb'[h].before]_vars

GcFailed(resp) == resp.kind # "ok"
GcEmpty(resp) == resp.kind = "ok" /\ NoResults(resp.data)

\* C11: geocodeLocation sends the region-scoped query first and the unscoped
\* query only second and only after an ok scoped response without a match; it
\* sends at most two requests; and when the scoped response has a match, the
\* call has returned that response's first match after that one request.
C11_ScopedThenUnscoped ==
    /\ Len(gc.requests) <= 2 /\ Len(gc.responses) = Len(gc.requests)
    /\ Len(gc.requests) >= 1 => gc.requests[1] = ScopedQuery(gc.locationName)
    /\ Len(gc.requests) = 2 =>
          /\ gc.requests[2] = UnscopedQuery(gc.locationName)
          /\ gc.responses[1].kind = "ok"
          /\ gc.responses[1].data.null \/ gc.responses[1].data.items = <<>>
    /\ (/\ Len(gc.responses) >= 1 /\ gc.responses[1].kind = "ok"
        /\ ~gc.responses[1].data.null /\ gc.responses[1].data.items # <<>>)
          => /\ Len(gc.requests) = 1 /\ gc.pc = "done"
             /\ gc.result.name = Head(gc.responses[1].data.items[1].display_name)
             /\ gc.result.lat = ParseFloat(gc.responses[1].data.items[1].lat)
             /\ gc.result.lng = ParseFloat(gc.responses[1].data.items[1].lon)

C11_Witness ==
    /\ gc.pc = "done" /\ Len(gc.requests) = 1
    /\ gc.responses[1].kind = "ok" /\ Len(gc.responses[1].data.items) = 2
    /\ gc.result.name = "Surat" /\ gc.locationName = "Surat"

\* C12: geocodeLocation never throws: every call ends by returning; a failed
\* call (fetch rejected, response not ok, body not JSON) returns null; and null
\* is returned only after a failed call or after both the scoped and the
\* unscoped request were answered without a match.
C12_NullOnFailureOrNoMatch ==
    /\ gc.pc \in {"idle", "unscoped", "done"}
    /\ (gc.responses # <<>> /\ GcFailed(gc.responses[Len(gc.responses)]))
          => gc.pc = "done" /\ gc.result = NoCoords
    /\ (gc.pc = "done" /\ gc.result = NoCoords)
          => \/ GcFailed(gc.responses[Len(gc.responses)])
             \/ /\ Len(gc.requests) = 2
                /\ gc.requests = <<ScopedQuery(gc.locationName), UnscopedQuery(gc.locationName)>>
                /\ \A i \in 1..2 :
                      /\ gc.responses[i].kind = "ok"
                      /\ gc.responses[i].data.null \/ gc.responses[i].data.items = <<>>

C12_Witness ==
    /\ gc.pc = "done" /\ gc.result = NoCoords /\ gc.locationName = "Nowhere"
    /\ Len(gc.requests) = 2 /\ GcEmpty(gc.responses[1]) /\ GcEmpty(gc.responses[2])

\* C17: onSearch is invoked only with both locations non-null, and the
\* locations it is given are the geocoding results of the from and to texts
\* current at submit time (never the result of an earlier text).
C17_SubmitsCurrentLocations ==
    sr.submitted.made =>
        /\ sr.submitted.fromLocation # NoLoc /\ sr.submitted.toLocation # NoLoc
        /\ sr.submitted.fromLocation = GeocodeOutcome(sr.submitted.from, TRUE)
        /\ sr.submitted.toLocation = GeocodeOutcome(sr.submitted.to, TRUE)

====
